---- MODULE Spec2Model ----
(***************************************************************************)
(* Model of the bot-process orchestration of src/server/server.py:         *)
(* the registry bot_procs, the handlers root / connect / status / stop_bot *)
(* and the helpers create_room_and_token and start_bot_process.            *)
(*                                                                         *)
(* The handlers are "async def" coroutines that never suspend (every call  *)
(* they make is blocking), so the event loop runs one handler body at a    *)
(* time; worker processes are OS processes and run beside it.              *)
(* GET / (root) provisions and starts like connect, with the defaults of   *)
(* start_bot_process, and answers with the meeting URL.                    *)
(***************************************************************************)
EXTENDS Naturals, Integers, Sequences, FiniteSets, TLC

(* ---------------------------------------------------------------- bounds *)
\* the signal counters of a process saturate at this value
SigCap == 1

\* the children the operating system lets the server have at one time, those
\* that run unregistered and those not yet reaped included; Popen raises
\* when a further one is asked for
MaxChildren == 3

\* proc.wait(timeout=5)
GracePeriod == 5

\* HTTP clients; each has at most one request outstanding
Clients == {"c1", "c2"}
\* room URLs the room-hosting API may answer with
Rooms == {"https://phronesis.daily.co/roomA", "https://phronesis.daily.co/roomB"}
\* the meeting token the room-hosting API mints for a room
TokenOf(r) == IF r = "https://phronesis.daily.co/roomA" THEN "tokA" ELSE "tokB"
\* process ids the operating system hands out
Pids == 101..(100 + MaxChildren)

\* a request body field that the client left out
Omitted == "<omitted>"
\* POST /connect bodies
Bodies ==
  { [bot_type |-> Omitted, topic |-> Omitted, concept |-> Omitted],
    [bot_type |-> "quiz", topic |-> "Computer Networks", concept |-> Omitted] }

NoBody == [bot_type |-> "", topic |-> "", concept |-> ""]

VARIABLES
  bot_procs,   \* the registry: dict pid -> (proc, room), in insertion order
  procs,       \* the Popen objects and their children, by process id
  pc,          \* per client: position of its request in the handler
  req,         \* per client: the request it sent
  loc,         \* per client: the local variables of the running handler
  stat,        \* per client: what the running request has done so far
  last         \* the request that finished last, what it did and its response,
               \* until the next handler begins

vars == <<bot_procs, procs, pc, req, loc, stat, last>>

(* ------------------------------------------------------------- helpers *)
Min(a, b) == IF a < b THEN a ELSE b

Range(s) == { s[k] : k \in 1..Len(s) }

\* keys of the dict
Keys(d) == { d[k].pid : k \in 1..Len(d) }

\* entries of the dict bound to a room
ByRoom(d, r) == { k \in 1..Len(d) : d[k].room = r }

\* the entry inserted first is taken, whatever the key
LookupFirst(d, p) == d[1]

\* bot_procs[pid]
Lookup(d, p) == d[CHOOSE k \in 1..Len(d) : d[k].pid = p]

\* the entry is left in the dict
DelNothing(d, p) == d

\* the entry inserted last is dropped, whatever the key
DelLast(d, p) == SubSeq(d, 1, Len(d) - 1)

\* del bot_procs[pid]
Del(d, p) == SelectSeq(d, LAMBDA e : e.pid # p)

\* the entry is stored with the token in the place of the room
PutToken(d, p, r) == Append(d, [pid |-> p, room |-> TokenOf(r)])

\* bot_procs[pid] = (proc, room): a present key keeps its position
Put(d, p, r) ==
  IF p \in Keys(d)
  THEN [k \in 1..Len(d) |-> IF d[k].pid = p THEN [pid |-> p, room |-> r] ELSE d[k]]
  ELSE Append(d, [pid |-> p, room |-> r])

\* ConnectionRequest: the defaults of the pydantic model
Default(v, dflt) == IF v = Omitted THEN dflt ELSE v

ConnectionRequest(body) ==
  [bot_type |-> Default(body.bot_type, "general"),
   topic    |-> Default(body.topic, ""),
   concept  |-> Default(body.concept, "")]

\* --topic and --concept are given each other's value
CmdSwapped(room_url, token, bot_type, topic, concept) ==
  [u |-> room_url, t |-> token, bot_type |-> bot_type, topic |-> concept,
   concept |-> topic]

\* the command line of the worker
Cmd(room_url, token, bot_type, topic, concept) ==
  [u |-> room_url, t |-> token, bot_type |-> bot_type, topic |-> topic,
   concept |-> concept]

NoCmd == Cmd("", "", "", "", "")

\* what a request has done: the calls it made that returned (room, token,
\* spawn, term, kill, del, ins), the signals those calls delivered to a
\* child (sigterm, sigkill) and the command line it spawned
NoStat == [room |-> 0, token |-> 0, spawn |-> 0, term |-> 0, kill |-> 0,
           del |-> 0, ins |-> 0, sigterm |-> 0, sigkill |-> 0, cmd |-> NoCmd]

NoLoc == [room_url |-> "", token |-> "", items |-> <<>>, i |-> 0,
          pid |-> 0, proc |-> 0, waited |-> 0, exc |-> "none"]

NoReq == [op |-> "none", bot_pid |-> 0, body |-> NoBody]

NoResp == [code |-> 0, detail |-> "", body |-> <<>>]

\* no response is on display: a handler has begun since the last one went out
NoLast == [client |-> "none", req |-> NoReq, resp |-> NoResp, stat |-> NoStat]

\* the requests whose handlers provision a room and start a worker:
\* POST /connect and GET /
Starters == {"connect", "root"}

\* positions in which a handler body is not executing
Parked == {"idle", "queued"}

\* handlers that run on threads of their own
RunnableAlways(c) == TRUE

\* the wait is awaited: other handlers run while one sits in proc.wait()
RunnableWhileWaiting(c) ==
  \A d \in Clients \ {c} : pc[d] \in Parked \cup {"s_wait", "d_wait"}

\* The event loop runs a coroutine until it suspends or returns; none of the
\* handlers suspends, so a handler runs only while no other one is mid-body.
Runnable(c) == \A d \in Clients \ {c} : pc[d] \in Parked

(* ----------------------------------------------------------- responses *)
\* raise HTTPException(status_code=code, detail=detail)
HTTPException(code, detail) == [code |-> code, detail |-> detail, body |-> <<>>]

\* JSONResponse(body)
JSONResponse(body) == [code |-> 200, detail |-> "", body |-> body]

Bump(c, f) == [stat EXCEPT ![c][f] = @ + 1]

Plus(c, f) == [stat[c] EXCEPT ![f] = @ + 1]

(* ----------------------------------------------------- worker processes *)
\* A Popen object is named by the process id of its child: the registry
\* keeps proc under proc.pid, and a process id is handed out again only once
\* the child that had it has been reaped.

\* the Popen object of a new child
Popen == [st |-> "running", term |-> 0, kill |-> 0]

\* no Popen object, and no child, has the process id
Free == [st |-> "free", term |-> 0, kill |-> 0]

\* send_signal first polls the child: 1 when the signal goes out, 0 when the
\* child is found to have exited
Live(h) == IF procs[h].st = "running" THEN 1 ELSE 0

\* no graceful-stop signal is sent
TerminatedUnsent(h) == procs

\* Popen.terminate() that returns: a running child is sent the graceful-stop
\* signal; a child that had exited is sent nothing, and is reaped by the
\* poll() if it had not been
Terminated(h) ==
  [procs EXCEPT ![h].term = Min(@ + Live(h), SigCap),
                ![h].st = IF @ = "zombie" THEN "reaped" ELSE @]

\* the wait is followed by a forced kill whatever its outcome
WaitedKilled(h) ==
  [procs EXCEPT ![h].st = "reaped", ![h].kill = Min(@ + 1, SigCap)]

\* Popen.wait() that returns: the exited process is reaped
Waited(h) == [procs EXCEPT ![h].st = "reaped"]

\* Popen.kill() that returns: a running child is sent the forced-kill
\* signal, which ends it; a child that had exited is sent nothing, and is
\* reaped by the poll() if it had not been
Killed(h) ==
  [procs EXCEPT ![h].kill = Min(@ + Live(h), SigCap),
                ![h].st = IF @ = "running" THEN "zombie" ELSE "reaped"]

\* Popen objects the snapshot list of a handler holds
InItems(c) == { loc[c].items[k].pid : k \in 1..Len(loc[c].items) }

\* Popen objects something still refers to: the registry, the loop variable
\* of a handler that is mid-body, or the list its loop is still walking
Referenced ==
  Keys(bot_procs) \cup
  { h \in Pids :
      \E c \in Clients :
        /\ pc[c] \notin Parked
        /\ \/ loc[c].proc = h
           \/ loc[c].i <= Len(loc[c].items) /\ h \in InItems(c) }

\* Popen.__init__ first reaps the exited children nothing refers to
Cleanup ==
  [h \in Pids |->
     IF procs[h].st = "zombie" /\ h \notin Referenced
     THEN [procs[h] EXCEPT !.st = "reaped"]
     ELSE procs[h]]

\* process ids the operating system can hand to a new child
FreePids(ps) == { h \in Pids : ps[h].st \in {"free", "reaped"} }

\* Popen objects that registry d or the locals of a handler other than
\* that of client c hold
Held(d, c) ==
  Keys(d) \cup
  { h \in Pids :
      \E o \in Clients \ {c} :
        pc[o] \notin Parked /\ (loc[o].proc = h \/ h \in InItems(o)) }

\* The handler of client c has returned: the Popen objects nothing holds
\* any longer are released. Of a released object only the child is left: it
\* keeps its process id while it runs, and is reaped (by the _cleanup of the
\* next Popen) once it has exited.
Collect(ps, d, c) ==
  [h \in Pids |->
     IF h \in Held(d, c) THEN ps[h]
     ELSE IF ps[h].st = "running" THEN Popen
     ELSE Free]

\* the handler of client c, which took request rq, returns or raises,
\* leaving registry d and processes ps, having done st: its locals are
\* released and the response goes out
FinishAs(c, rq, r, d, ps, st) ==
  /\ pc' = [pc EXCEPT ![c] = "idle"]
  /\ req' = [req EXCEPT ![c] = NoReq]
  /\ loc' = [loc EXCEPT ![c] = NoLoc]
  /\ stat' = [stat EXCEPT ![c] = NoStat]
  /\ last' = [client |-> c, req |-> rq, resp |-> r, stat |-> st]
  /\ bot_procs' = d
  /\ procs' = Collect(ps, d, c)

\* the same, for a handler that is past its first step
Finish(c, r, d, ps, st) == FinishAs(c, req[c], r, d, ps, st)

\* the exit of a worker is noticed and its entry dropped
WorkerExitDelisted(h) ==
  /\ procs[h].st = "running"
  /\ bot_procs' = Del(bot_procs, h)
  /\ procs' = IF h \in Held(bot_procs', "none")
              THEN [procs EXCEPT ![h].st = "zombie"]
              ELSE [procs EXCEPT ![h] = Free]
  /\ UNCHANGED <<pc, req, loc, stat, last>>

\* a worker exits on its own (crash, end of session, or on the graceful signal)
WorkerExit(h) ==
  /\ procs[h].st = "running"
  /\ procs' = IF h \in Held(bot_procs, "none")
              THEN [procs EXCEPT ![h].st = "zombie"]
              ELSE [procs EXCEPT ![h] = Free]
  /\ UNCHANGED <<bot_procs, pc, req, loc, stat, last>>

(* ------------------------------------------------------------- clients *)
\* the requests of the four routes: POST /connect, GET /, GET /status and
\* DELETE /bot/{bot_pid}
ConnectRequests == [op : {"connect"}, bot_pid : {0}, body : Bodies]

RootRequests == [op : {"root"}, bot_pid : {0}, body : {NoBody}]

StatusRequests == [op : {"status"}, bot_pid : {0}, body : {NoBody}]

StopRequests == [op : {"stop"}, bot_pid : Pids, body : {NoBody}]

\* a client sends a request; it waits for the event loop, and the handler of
\* its route reads it when the event loop runs it
Call(c) ==
  /\ pc[c] = "idle"
  /\ pc' = [pc EXCEPT ![c] = "queued"]
  /\ last' = NoLast
  /\ UNCHANGED <<bot_procs, procs, req, loc, stat>>

(* ------------------------------------------------ create_room_and_token *)
\* a failed room call is made a second time
create_room_retry(c) ==
  \/ /\ pc[c] = "queued" /\ Runnable(c)
     /\ \E rq \in ConnectRequests \cup RootRequests :
          \/ \E r \in Rooms :
               /\ req' = [req EXCEPT ![c] = rq]
               /\ loc' = [loc EXCEPT ![c].room_url = r]
               /\ pc' = [pc EXCEPT ![c] = "token"]
               /\ stat' = Bump(c, "room")
               /\ last' = NoLast
               /\ UNCHANGED <<bot_procs, procs>>
          \/ /\ req' = [req EXCEPT ![c] = rq]
             /\ pc' = [pc EXCEPT ![c] = "room2"]
             /\ stat' = Bump(c, "room")
             /\ last' = NoLast
             /\ UNCHANGED <<bot_procs, procs, loc>>
  \/ /\ pc[c] = "room2" /\ Runnable(c)
     /\ \/ \E r \in Rooms :
             /\ loc' = [loc EXCEPT ![c].room_url = r]
             /\ pc' = [pc EXCEPT ![c] = "token"]
             /\ stat' = Bump(c, "room")
             /\ UNCHANGED <<bot_procs, procs, req, last>>
        \/ Finish(c, HTTPException(500, "Failed to create room"), bot_procs, procs,
                  Plus(c, "room"))

\* POST /connect or GET / is taken up; requests.post(.../rooms): the room
\* URL, or a status outside [200, 201]
create_room(c) ==
  /\ pc[c] = "queued" /\ Runnable(c)
  /\ \E rq \in ConnectRequests \cup RootRequests :
       \/ \E r \in Rooms :
            /\ req' = [req EXCEPT ![c] = rq]
            /\ loc' = [loc EXCEPT ![c].room_url = r]
            /\ pc' = [pc EXCEPT ![c] = "token"]
            /\ stat' = Bump(c, "room")
            /\ last' = NoLast
            /\ UNCHANGED <<bot_procs, procs>>
       \/ FinishAs(c, rq, HTTPException(500, "Failed to create room"), bot_procs,
                   procs, Plus(c, "room"))

\* requests.post(.../meeting-tokens): the token, or a status outside [200, 201]
create_token(c) ==
  /\ pc[c] = "token" /\ Runnable(c)
  /\ \/ /\ loc' = [loc EXCEPT ![c].token = TokenOf(loc[c].room_url)]
        /\ pc' = [pc EXCEPT ![c] = "scan"]
        /\ stat' = Bump(c, "token")
        /\ UNCHANGED <<bot_procs, procs, req, last>>
     \/ Finish(c, HTTPException(500, "Failed to create token"), bot_procs, procs,
               Plus(c, "token"))

(* ---------------------------------------------------- start_bot_process *)
\* the comparison turned round
MatchesOther(room, room_url) == room # room_url

\* the comparison is left out: the workers of every room are retired
MatchesAny(room, room_url) == TRUE

\* if room == room_url
Matches(room, room_url) == room = room_url

\* the item the for loop of client c is at
Item(c) == loc[c].items[loc[c].i]

\* for pid, (proc, room) in list(bot_procs.items()): the snapshot is taken
start_scan(c) ==
  /\ pc[c] = "scan" /\ Runnable(c)
  /\ loc' = [loc EXCEPT ![c].items = bot_procs, ![c].i = 1]
  /\ pc' = [pc EXCEPT ![c] = "loop"]
  /\ UNCHANGED <<bot_procs, procs, req, stat, last>>

\* an item bound to another room is passed over
start_skip(c) ==
  /\ pc[c] = "loop" /\ Runnable(c)
  /\ loc[c].i <= Len(loc[c].items)
  /\ ~Matches(Item(c).room, loc[c].room_url)
  /\ loc' = [loc EXCEPT ![c].pid = Item(c).pid, ![c].proc = Item(c).pid,
                        ![c].i = @ + 1]
  /\ UNCHANGED <<bot_procs, procs, pc, req, stat, last>>

\* an item bound to this room: proc.terminate(), which returns or raises
start_terminate(c) ==
  /\ pc[c] = "loop" /\ Runnable(c)
  /\ loc[c].i <= Len(loc[c].items)
  /\ Matches(Item(c).room, loc[c].room_url)
  /\ \/ /\ procs' = Terminated(Item(c).pid)
        /\ loc' = [loc EXCEPT ![c].pid = Item(c).pid, ![c].proc = Item(c).pid,
                              ![c].waited = 0]
        /\ stat' = [stat EXCEPT ![c].term = @ + 1,
                                ![c].sigterm = @ + Live(Item(c).pid)]
        /\ pc' = [pc EXCEPT ![c] = "s_wait"]
        /\ UNCHANGED <<bot_procs, req, last>>
     \/ Finish(c, HTTPException(500, "terminate"), bot_procs, procs, stat[c])

\* the position after the wait of the termination sequence
AfterWait(c) == IF pc[c] = "s_wait" THEN "s_del" ELSE "d_fin"

\* the position of the except clause of the termination sequence
AtKill(c) == IF pc[c] = "s_wait" THEN "s_kill" ELSE "d_kill"

\* proc.wait(timeout=5) returns: the process has exited
wait_exit(c) ==
  /\ pc[c] \in {"s_wait", "d_wait"} /\ Runnable(c)
  /\ procs[loc[c].proc].st # "running"
  /\ procs' = Waited(loc[c].proc)
  /\ pc' = [pc EXCEPT ![c] = AfterWait(c)]
  /\ UNCHANGED <<bot_procs, req, loc, stat, last>>

\* a second of the wait passes with the process still running
Tick(c) ==
  /\ pc[c] \in {"s_wait", "d_wait"} /\ Runnable(c)
  /\ procs[loc[c].proc].st = "running"
  /\ loc[c].waited < GracePeriod
  /\ loc' = [loc EXCEPT ![c].waited = @ + 1]
  /\ UNCHANGED <<bot_procs, procs, pc, req, stat, last>>

\* the timeout expires a second early
wait_timeout_early(c) ==
  /\ pc[c] \in {"s_wait", "d_wait"} /\ Runnable(c)
  /\ procs[loc[c].proc].st = "running"
  /\ loc[c].waited >= GracePeriod - 1
  /\ pc' = [pc EXCEPT ![c] = AtKill(c)]
  /\ UNCHANGED <<bot_procs, procs, req, loc, stat, last>>

\* proc.wait(timeout=5) raises subprocess.TimeoutExpired: the process still
\* runs when the 5 seconds are over
wait_timeout(c) ==
  /\ pc[c] \in {"s_wait", "d_wait"} /\ Runnable(c)
  /\ procs[loc[c].proc].st = "running"
  /\ loc[c].waited = GracePeriod
  /\ pc' = [pc EXCEPT ![c] = AtKill(c)]
  /\ UNCHANGED <<bot_procs, procs, req, loc, stat, last>>

\* the position after the except clause of the termination sequence
AfterKill(c) == IF pc[c] = "s_kill" THEN "s_del" ELSE "d_fin"

\* except subprocess.TimeoutExpired: proc.kill(), which returns or raises;
\* the process may have exited since the timeout
timeout_kill(c) ==
  /\ pc[c] \in {"s_kill", "d_kill"} /\ Runnable(c)
  /\ \/ /\ procs' = Killed(loc[c].proc)
        /\ stat' = [stat EXCEPT ![c].kill = @ + 1,
                                ![c].sigkill = @ + Live(loc[c].proc)]
        /\ pc' = [pc EXCEPT ![c] = AfterKill(c)]
        /\ UNCHANGED <<bot_procs, req, loc, last>>
     \/ /\ pc[c] = "s_kill"
        /\ Finish(c, HTTPException(500, "kill"), bot_procs, procs, stat[c])
     \/ /\ pc[c] = "d_kill"
        /\ loc' = [loc EXCEPT ![c].exc = "kill"]
        /\ pc' = [pc EXCEPT ![c] = "d_fin"]
        /\ UNCHANGED <<bot_procs, procs, req, stat, last>>

\* del bot_procs[pid], then the next item
start_del(c) ==
  /\ pc[c] = "s_del" /\ Runnable(c)
  /\ IF loc[c].pid \in Keys(bot_procs)
     THEN /\ bot_procs' = Del(bot_procs, loc[c].pid)
          /\ UNCHANGED procs
          /\ stat' = Bump(c, "del")
          /\ loc' = [loc EXCEPT ![c].i = @ + 1]
          /\ pc' = [pc EXCEPT ![c] = "loop"]
          /\ UNCHANGED <<req, last>>
     ELSE Finish(c, HTTPException(500, "KeyError"), bot_procs, procs, stat[c])

\* the body of the response of connect
ConnectBody(room_url, token, bot_pid, r) ==
  [room_url |-> room_url, token |-> token, bot_pid |-> bot_pid,
   bot_type |-> r.bot_type, topic |-> r.topic, concept |-> r.concept]

\* room_url.split('/'): the parts of a URL between its slashes
Split(room_url) ==
  CASE room_url = "https://phronesis.daily.co/roomA"
         -> <<"https:", "", "phronesis.daily.co", "roomA">>
    [] room_url = "https://phronesis.daily.co/roomB"
         -> <<"https:", "", "phronesis.daily.co", "roomB">>
    [] OTHER -> <<room_url>>

\* room_url.split('/')[-1]: the last part
LastSegment(room_url) == Split(room_url)[Len(Split(room_url))]

\* the body of the response of root
RootBody(room_url, token, bot_pid) ==
  [room_url |-> room_url, token |-> token, bot_pid |-> bot_pid,
   meeting_url |-> "https://phronesis.daily.co/" \o LastSegment(room_url)]

\* what the handler passes to start_bot_process: connect the fields of its
\* request, root nothing, so that the defaults of the parameters apply
StartArgs(rq) ==
  IF rq.op = "root"
  THEN [bot_type |-> "general", topic |-> "", concept |-> ""]
  ELSE ConnectionRequest(rq.body)

\* the body of the response of the handler that started the worker
StartBody(rq, room_url, token, bot_pid, r) ==
  IF rq.op = "root"
  THEN RootBody(room_url, token, bot_pid)
  ELSE ConnectBody(room_url, token, bot_pid, r)

\* a failed Popen is tried a second time
start_spawn_retry(c) ==
  /\ pc[c] = "loop" /\ Runnable(c)
  /\ loc[c].i > Len(loc[c].items)
  /\ LET r == StartArgs(req[c])
         cmd == Cmd(loc[c].room_url, loc[c].token, r.bot_type, r.topic, r.concept)
     IN
     \/ \E p \in FreePids(Cleanup) :
          Finish(c, JSONResponse(
                       StartBody(req[c], loc[c].room_url, loc[c].token, p, r)),
                 Put(bot_procs, p, loc[c].room_url),
                 [Cleanup EXCEPT ![p] = Popen],
                 [stat[c] EXCEPT !.spawn = @ + 1, !.ins = @ + 1, !.cmd = cmd])
     \/ /\ stat[c].spawn = 0
        /\ stat' = [stat EXCEPT ![c].spawn = @ + 1, ![c].cmd = cmd]
        /\ procs' = Cleanup
        /\ UNCHANGED <<bot_procs, pc, req, loc, last>>
     \/ /\ stat[c].spawn > 0
        /\ Finish(c, HTTPException(500, "Failed to start bot"), bot_procs, Cleanup,
                  [stat[c] EXCEPT !.spawn = @ + 1, !.cmd = cmd])

\* a failed Popen puts the entries of the snapshot back
start_spawn_rollback(c) ==
  /\ pc[c] = "loop" /\ Runnable(c)
  /\ loc[c].i > Len(loc[c].items)
  /\ LET r == StartArgs(req[c])
         cmd == Cmd(loc[c].room_url, loc[c].token, r.bot_type, r.topic, r.concept)
     IN
     \/ \E p \in FreePids(Cleanup) :
          Finish(c, JSONResponse(
                       StartBody(req[c], loc[c].room_url, loc[c].token, p, r)),
                 Put(bot_procs, p, loc[c].room_url),
                 [Cleanup EXCEPT ![p] = Popen],
                 [stat[c] EXCEPT !.spawn = @ + 1, !.ins = @ + 1, !.cmd = cmd])
     \/ Finish(c, HTTPException(500, "Failed to start bot"), loc[c].items, procs,
               [stat[c] EXCEPT !.spawn = @ + 1, !.cmd = cmd])

\* subprocess.Popen(cmd), bot_procs[proc.pid] = (proc, room_url), return proc.pid;
\* or Popen raises and connect answers 500. With MaxChildren children alive
\* or unreaped no process id is free, and Popen can only raise.
start_spawn(c) ==
  /\ pc[c] = "loop" /\ Runnable(c)
  /\ loc[c].i > Len(loc[c].items)
  /\ LET r == StartArgs(req[c])
         cmd == Cmd(loc[c].room_url, loc[c].token, r.bot_type, r.topic, r.concept)
     IN
     \/ \E p \in FreePids(Cleanup) :
          Finish(c, JSONResponse(
                       StartBody(req[c], loc[c].room_url, loc[c].token, p, r)),
                 Put(bot_procs, p, loc[c].room_url),
                 [Cleanup EXCEPT ![p] = Popen],
                 [stat[c] EXCEPT !.spawn = @ + 1, !.ins = @ + 1, !.cmd = cmd])
     \/ Finish(c, HTTPException(500, "Failed to start bot"), bot_procs, Cleanup,
               [stat[c] EXCEPT !.spawn = @ + 1, !.cmd = cmd])

(* --------------------------------------------------------------- status *)
\* the count is taken over the workers that still run
StatusBodyLive(d) ==
  [status |-> "running",
   active_bots |-> Cardinality({ k \in 1..Len(d) : procs[d[k].pid].st = "running" }),
   bot_processes |-> [k \in 1..Len(d) |-> [pid |-> d[k].pid, room |-> d[k].room]]]

\* the body of the response of status
StatusBody(d) ==
  [status |-> "running",
   active_bots |-> Len(d),
   bot_processes |-> [k \in 1..Len(d) |-> [pid |-> d[k].pid, room |-> d[k].room]]]

\* GET /status is taken up and answered
status(c) ==
  /\ pc[c] = "queued" /\ Runnable(c)
  /\ \E rq \in StatusRequests :
       FinishAs(c, rq, JSONResponse(StatusBody(bot_procs)), bot_procs, procs,
                stat[c])

(* ------------------------------------------------------------- stop_bot *)
\* the check of the key is left out
KnownAlways(d, p) == TRUE

\* bot_pid in bot_procs
Known(d, p) == p \in Keys(d)

\* if bot_pid not in bot_procs: 404; else proc, room_url = bot_procs[bot_pid]
\* (a KeyError if the key is missing) and proc.terminate(), which returns or
\* raises
stop_bot(c) ==
  /\ pc[c] = "queued" /\ Runnable(c)
  /\ \E rq \in StopRequests :
       \/ /\ ~Known(bot_procs, rq.bot_pid)
          /\ FinishAs(c, rq, HTTPException(404, "Bot not found"), bot_procs, procs,
                      stat[c])
       \/ /\ Known(bot_procs, rq.bot_pid)
          /\ rq.bot_pid \notin Keys(bot_procs)
          /\ FinishAs(c, rq, HTTPException(500, "Internal Server Error"), bot_procs,
                      procs, stat[c])
       \/ /\ Known(bot_procs, rq.bot_pid)
          /\ rq.bot_pid \in Keys(bot_procs)
          /\ req' = [req EXCEPT ![c] = rq]
          /\ LET e == Lookup(bot_procs, rq.bot_pid) IN
             \/ /\ procs' = Terminated(e.pid)
                /\ loc' = [loc EXCEPT ![c].proc = e.pid, ![c].room_url = e.room,
                                      ![c].waited = 0]
                /\ stat' = [stat EXCEPT ![c].term = @ + 1,
                                        ![c].sigterm = @ + Live(e.pid)]
                /\ pc' = [pc EXCEPT ![c] = "d_wait"]
                /\ last' = NoLast
                /\ UNCHANGED bot_procs
             \/ /\ loc' = [loc EXCEPT ![c].proc = e.pid, ![c].room_url = e.room,
                                      ![c].exc = "terminate"]
                /\ pc' = [pc EXCEPT ![c] = "d_fin"]
                /\ last' = NoLast
                /\ UNCHANGED <<bot_procs, procs, stat>>

\* finally: del bot_procs[bot_pid]; then the success message, or the
\* pending exception leaves the handler
stop_finally(c) ==
  /\ pc[c] = "d_fin" /\ Runnable(c)
  /\ IF req[c].bot_pid \in Keys(bot_procs)
     THEN Finish(c, IF loc[c].exc = "none"
                    THEN JSONResponse([message |-> req[c].bot_pid])
                    ELSE HTTPException(500, "Internal Server Error"),
                 Del(bot_procs, req[c].bot_pid),
                 procs,
                 Plus(c, "del"))
     ELSE Finish(c, HTTPException(500, "Internal Server Error"), bot_procs, procs,
                 stat[c])

(* -------------------------------------------------------- specification *)
Init ==
  /\ bot_procs = <<>>
  /\ procs = [h \in Pids |-> Free]
  /\ pc = [c \in Clients |-> "idle"]
  /\ req = [c \in Clients |-> NoReq]
  /\ loc = [c \in Clients |-> NoLoc]
  /\ stat = [c \in Clients |-> NoStat]
  /\ last = NoLast

Next ==
  \/ \E c \in Clients : Call(c)
  \/ \E c \in Clients : create_room(c)
  \/ \E c \in Clients : create_token(c)
  \/ \E c \in Clients : start_scan(c)
  \/ \E c \in Clients : start_skip(c)
  \/ \E c \in Clients : start_terminate(c)
  \/ \E c \in Clients : wait_exit(c)
  \/ \E c \in Clients : Tick(c)
  \/ \E c \in Clients : wait_timeout(c)
  \/ \E c \in Clients : timeout_kill(c)
  \/ \E c \in Clients : start_del(c)
  \/ \E c \in Clients : start_spawn(c)
  \/ \E c \in Clients : status(c)
  \/ \E c \in Clients : stop_bot(c)
  \/ \E c \in Clients : stop_finally(c)
  \/ \E h \in Pids : WorkerExit(h)

Spec == Init /\ [][Next]_vars

(* ================================================================ claims *)
\* no handler is mid-body: every operation that began has completed
AtRest == \A c \in Clients : pc[c] \in Parked

\* the positions of start_bot_process: scan, terminate, wait, delete, spawn
StartSection == {"scan", "loop", "s_wait", "s_kill", "s_del"}

\* the number of registry entries bound to room r
Count(d, r) == Cardinality(ByRoom(d, r))

\* this step is the one in which the handler of client c returns or raises
Returns(c) == pc[c] # "idle" /\ pc'[c] = "idle"

\* this step is the first of a handler for client c: it takes up the request
Begins(c) == pc[c] = "queued" /\ pc'[c] # "queued"

\* the request the handler of client c is handling in this step
Handled(c) ==
  IF pc[c] \in Parked
  THEN IF pc'[c] = "idle" THEN last'.req ELSE req'[c]
  ELSE req[c]

\* C1: whenever every operation that began has completed, the registry holds
\* at most one entry for any room.
C1_OneEntryPerRoom == AtRest => \A r \in Rooms : Count(bot_procs, r) <= 1

\* a connect has retired the worker of its room and registered a new one,
\* beside the worker of the other room
C1_Witness ==
  /\ AtRest
  /\ last.req.op = "connect" /\ last.resp.code = 200 /\ last.stat.del = 1
  /\ Len(bot_procs) = 2

\* C2: when a start for a room returns an id, the registry holds exactly one
\* entry for the room, that of the new worker, and every worker that was
\* registered for the room when the start began has been removed from the
\* registry, no longer runs, and has had terminate() called on it, which
\* sent it the graceful-stop signal if it had not exited before the call.
C2_StartSupersedes ==
  [][\A c \in Clients :
       /\ (pc[c] = "loop" /\ Returns(c) /\ last'.resp.code = 200) =>
            LET r == loc[c].room_url
                new == last'.resp.body.bot_pid
                prior == { k \in 1..Len(loc[c].items) : loc[c].items[k].room = r }
            IN /\ Count(bot_procs', r) = 1
               /\ [pid |-> new, room |-> r] \in Range(bot_procs')
               /\ procs'[new] = Popen
               /\ last'.stat.term = Cardinality(prior)
               /\ \A k \in prior :
                    /\ loc[c].items[k].pid \notin Keys(bot_procs)
                    /\ procs[loc[c].items[k].pid].st # "running"
                    /\ \/ procs[loc[c].items[k].pid].term >= 1
                       \/ stat[c].sigterm < stat[c].term
       /\ (pc[c] = "loop" /\ pc'[c] = "s_wait") =>
            /\ stat'[c].sigterm = stat[c].sigterm + Live(loc'[c].proc)
            /\ procs[loc'[c].proc].st = "running" =>
                 procs'[loc'[c].proc].term >= 1]_vars

\* a start has returned an id after it retired the worker of its room
C2_Witness ==
  /\ last.req.op = "connect" /\ last.resp.code = 200
  /\ last.stat.term = 1 /\ last.stat.del = 1

\* C3: the scan-terminate-spawn-register sequences of concurrent connects
\* never overlap; a start removes an entry only of a worker that no longer
\* runs; once all calls have settled no room has two entries, and the room
\* of a connect that has just succeeded has exactly one, that of the worker
\* it returned.
C3_StartIsCritical ==
  /\ Cardinality({ c \in Clients : pc[c] \in StartSection }) <= 1
  /\ \A c \in Clients : pc[c] = "s_del" => procs[loc[c].proc].st # "running"
  /\ AtRest => \A r \in Rooms : Count(bot_procs, r) <= 1
  /\ (AtRest /\ last.req.op \in Starters /\ last.resp.code = 200) =>
       /\ Count(bot_procs, last.resp.body.room_url) = 1
       /\ [pid |-> last.resp.body.bot_pid, room |-> last.resp.body.room_url]
            \in Range(bot_procs)

\* a connect is retiring the worker of its room while the request of the
\* other client waits for the event loop
C3_Witness ==
  \E c, d \in Clients :
    /\ c # d
    /\ req[c].op = "connect" /\ pc[c] = "s_wait"
    /\ pc[d] = "queued"

\* C4: a stop of an id that is not in the registry answers 404, leaves the
\* registry as it is and signals no process.
C4_StopUnknown ==
  [][\A c \in Clients :
       (/\ Begins(c) /\ Handled(c).op = "stop"
        /\ Handled(c).bot_pid \notin Keys(bot_procs)) =>
         /\ Returns(c)
         /\ last'.resp = HTTPException(404, "Bot not found")
         /\ last'.stat = NoStat
         /\ bot_procs' = bot_procs
         /\ procs' = procs]_vars

\* a stop has answered 404 while the registry holds other workers
C4_Witness ==
  /\ last.req.op = "stop" /\ last.resp.code = 404
  /\ bot_procs # <<>>

\* C5: a stop of a registered id goes through the termination sequence and,
\* however that ends, the id is not in the registry when the stop has
\* finished.
C5_StopRemoves ==
  [][\A c \in Clients :
       /\ (/\ Begins(c) /\ Handled(c).op = "stop"
           /\ Handled(c).bot_pid \in Keys(bot_procs)) =>
            pc'[c] \in {"d_wait", "d_fin"}
       /\ (Handled(c).op = "stop" /\ Returns(c)) =>
            Handled(c).bot_pid \notin Keys(bot_procs')]_vars

\* a stop whose signalling raised has finished, and has removed the entry
C5_Witness ==
  /\ last.req.op = "stop" /\ last.resp.code = 500
  /\ last.stat.del = 1

\* C6: the termination sequence never fails outward: a stop of a registered
\* id answers with its success message, and no connect fails because the
\* retiring of a prior worker failed.
C6_NeverFailsOutward ==
  /\ (last.req.op = "stop" /\ last.resp.code # 404) => last.resp.code = 200
  /\ last.req.op \in Starters => last.resp.detail \notin {"terminate", "kill"}

\* C7: when Popen fails, connect answers 500, the registry is as it was
\* before the attempt, and the attempt was the only one.
C7_SpawnFailure ==
  [][\A c \in Clients :
       (/\ pc[c] = "loop" /\ Returns(c)
        /\ last'.stat.spawn > 0 /\ last'.resp.code # 200) =>
         /\ last'.resp = HTTPException(500, "Failed to start bot")
         /\ last'.stat.spawn = 1
         /\ last'.stat.ins = 0
         /\ bot_procs' = bot_procs]_vars

\* a connect has failed at the spawn while the registry holds a worker
C7_Witness ==
  /\ last.resp.detail = "Failed to start bot"
  /\ bot_procs # <<>>

\* C8: when the room call or the token call fails, connect answers 500, the
\* failing call was made once, no token call follows a failed room call, no
\* worker was spawned or signalled and the registry is as it was.
C8_ProvisioningFailure ==
  [][\A c \in Clients :
       /\ (Handled(c).op \in Starters /\ pc[c] \in {"queued", "token"} /\ Returns(c)) =>
            last'.resp \in { HTTPException(500, "Failed to create room"),
                             HTTPException(500, "Failed to create token") }
       /\ (/\ Returns(c)
           /\ last'.resp.detail \in {"Failed to create room",
                                     "Failed to create token"}) =>
            /\ last'.resp.code = 500
            /\ last'.stat =
                 [NoStat EXCEPT
                    !.room = 1,
                    !.token = IF last'.resp.detail = "Failed to create token"
                              THEN 1 ELSE 0]
            /\ bot_procs' = bot_procs
            /\ procs' = procs]_vars

\* a connect has failed at the token call while the registry holds a worker
C8_Witness ==
  /\ last.resp.detail = "Failed to create token"
  /\ bot_procs # <<>>

\* the pids a status response lists
Listed(body) == { body.bot_processes[k].pid : k \in 1..Len(body.bot_processes) }

\* this step is the status handler of client c
StatusStep(c) == Begins(c) /\ Handled(c).op = "status"

\* C9: the status call that follows a successful connect lists the returned
\* bot_pid with the provisioned room; a successful DELETE answers with its
\* message, and the status call that follows it does not list the pid.
C9_ConnectStatusStop ==
  [][\A c \in Clients :
       /\ (StatusStep(c) /\ last.req.op = "connect" /\ last.resp.code = 200) =>
            [pid |-> last.resp.body.bot_pid, room |-> last.resp.body.room_url]
              \in Range(last'.resp.body.bot_processes)
       /\ (req[c].op = "stop" /\ Returns(c) /\ last'.resp.code = 200) =>
            last'.resp.body = [message |-> req[c].bot_pid]
       /\ (StatusStep(c) /\ last.req.op = "stop" /\ last.resp.code = 200) =>
            last.req.bot_pid \notin Listed(last'.resp.body)]_vars

\* a DELETE has succeeded beside a worker that runs, and the request that
\* is the next to run may be a status call
C9_Witness ==
  /\ last.req.op = "stop" /\ last.resp.code = 200
  /\ bot_procs # <<>>
  /\ \E c \in Clients : pc[c] = "queued"
  /\ \E h \in Keys(bot_procs) : procs[h].st = "running"

\* C10: the count of a status response is the length of its list, and both
\* are those of the registry at that instant, other requests being in
\* flight or not.
C10_StatusCount ==
  last.req.op = "status" =>
    /\ last.resp.body.active_bots = Len(last.resp.body.bot_processes)
    /\ last.resp.body.active_bots = Len(bot_procs)
    /\ last.resp.body.bot_processes = bot_procs

\* a status call has answered with two workers while a request waits
C10_Witness ==
  /\ last.req.op = "status" /\ last.resp.body.active_bots = 2
  /\ \E c \in Clients : pc[c] = "queued"

\* the positions in which a handler is inside proc.wait(timeout=5)
InWait == {"s_wait", "d_wait"}

\* the positions in which a handler is about to call proc.kill()
InKill == {"s_kill", "d_kill"}

\* C11: a worker that has exited is never sent the forced-kill signal: a
\* wait that finds the worker exited, in stop and in start, goes on to the
\* removal of the entry without a call of kill(), and a stop whose worker
\* exited before the grace period was over has not called kill() when it
\* finishes.
C11_NoKillAfterExit ==
  [][/\ \A h \in Pids :
          procs[h].st # "running" => procs'[h].kill <= procs[h].kill
     /\ \A c \in Clients :
          /\ (/\ pc[c] \in InWait /\ pc'[c] # pc[c]
              /\ procs[loc[c].proc].st # "running") =>
               /\ pc'[c] = AfterWait(c)
               /\ stat'[c].kill = stat[c].kill
               /\ stat'[c].sigkill = stat[c].sigkill
               /\ procs'[loc[c].proc].kill = procs[loc[c].proc].kill
          /\ stat'[c].sigkill > stat[c].sigkill =>
               procs[loc[c].proc].st = "running"
          /\ (pc[c] = "d_fin" /\ Returns(c) /\ loc[c].waited < GracePeriod) =>
               last'.stat.kill = 0 /\ last'.stat.sigkill = 0]_vars

\* the worker of a stop was sent the graceful-stop signal, exited on its own
\* part-way through the grace period, and the wait has returned
C11_Witness ==
  \E c \in Clients :
    /\ pc[c] = "d_fin" /\ loc[c].exc = "none"
    /\ stat[c].sigterm = 1 /\ stat[c].kill = 0
    /\ loc[c].waited \in 1..(GracePeriod - 1)
    /\ procs[loc[c].proc].st = "reaped"

\* C12: a wait, in stop and in start, is left with the worker still running
\* only when the whole grace period has passed, and then for the except
\* clause, whose one statement is proc.kill(): the call delivers the
\* forced-kill signal to a worker that still runs, or it raises. kill() is
\* called nowhere else, and no forced-kill signal is delivered before the
\* grace period is over.
C12_KillAtGrace ==
  [][/\ \A c \in Clients :
          /\ (/\ pc[c] \in InWait /\ pc'[c] # pc[c]
              /\ procs[loc[c].proc].st = "running") =>
               /\ loc[c].waited = GracePeriod
               /\ pc'[c] = AtKill(c)
               /\ procs' = procs /\ bot_procs' = bot_procs /\ stat' = stat
          /\ (pc'[c] \in InKill /\ pc[c] # pc'[c]) =>
               /\ pc[c] \in InWait
               /\ loc[c].waited = GracePeriod
               /\ procs[loc[c].proc].st = "running"
          /\ (pc[c] \in InKill /\ pc'[c] # pc[c]) =>
               \/ /\ pc'[c] = AfterKill(c)
                  /\ stat'[c].kill = stat[c].kill + 1
                  /\ procs'[loc[c].proc].st # "running"
                  /\ procs[loc[c].proc].st = "running" =>
                       /\ stat'[c].sigkill = stat[c].sigkill + 1
                       /\ procs'[loc[c].proc].kill >= 1
               \/ /\ pc[c] = "s_kill" /\ Returns(c)
                  /\ last'.resp = HTTPException(500, "kill")
               \/ /\ pc[c] = "d_kill" /\ pc'[c] = "d_fin"
                  /\ loc'[c].exc = "kill"
          /\ stat'[c].kill > stat[c].kill => pc[c] \in InKill
     /\ \A h \in Pids :
          procs'[h].kill > procs[h].kill =>
            \E c \in Clients :
              /\ pc[c] \in InKill /\ loc[c].proc = h
              /\ loc[c].waited = GracePeriod]_vars

\* a worker outlasted the grace period and has been sent the forced kill
C12_Witness ==
  \E c \in Clients :
    /\ pc[c] \in {"s_del", "d_fin"}
    /\ stat[c].kill = 1 /\ stat[c].sigkill = 1
    /\ loc[c].waited = GracePeriod
    /\ procs[loc[c].proc].st = "zombie" /\ procs[loc[c].proc].kill = 1

\* C13: the blocking wait does not stall unrelated requests: while the
\* stop or start of one client waits out the grace period of a worker, a
\* request that another client has sent can be handled, as a status request
\* and as a stop request.
C13_WaitDoesNotStall ==
  \A c, d \in Clients :
    (c # d /\ pc[c] \in InWait /\ pc[d] = "queued") =>
      ENABLED status(d) /\ ENABLED stop_bot(d)

\* C14: an entry enters the registry only in the step in which a start has
\* spawned its worker; an entry leaves it only in the removal step of a stop
\* of its id or of a start for its room; the exit of a registered worker
\* leaves the registry as it is, and status lists every entry, those of
\* exited workers too.
C14_EntryLifecycle ==
  [][/\ \A e \in Range(bot_procs') \ Range(bot_procs) :
          \E c \in Clients :
            /\ pc[c] = "loop" /\ Returns(c)
            /\ last'.resp.code = 200 /\ last'.stat.spawn = 1
            /\ e = [pid |-> last'.resp.body.bot_pid, room |-> loc[c].room_url]
            /\ procs'[e.pid] = Popen
     /\ \A e \in Range(bot_procs) \ Range(bot_procs') :
          \E c \in Clients :
            \/ req[c].op = "stop" /\ pc[c] = "d_fin" /\ req[c].bot_pid = e.pid
            \/ /\ req[c].op \in Starters /\ pc[c] = "s_del"
               /\ loc[c].room_url = e.room /\ loc[c].pid = e.pid
     /\ \A h \in Keys(bot_procs) :
          (procs[h].st = "running" /\ procs'[h].st # "running") =>
            bot_procs' = bot_procs
     /\ \A c \in Clients :
          StatusStep(c) => Listed(last'.resp.body) = Keys(bot_procs)]_vars

\* a status call has listed a worker that had exited on its own
C14_Witness ==
  /\ last.req.op = "status"
  /\ \E h \in Listed(last.resp.body) :
       procs[h].st = "zombie" /\ procs[h].term = 0 /\ procs[h].kill = 0

\* the entries of the room of the start of client c that were in the
\* registry when its loop began
Prior(c) ==
  { loc[c].items[k].pid :
      k \in { j \in 1..Len(loc[c].items) : loc[c].items[j].room = loc[c].room_url } }

\* C15: in start, every prior entry of the room is out of the registry when
\* the spawn begins and when the start ends, whichever way the retiring of
\* the prior worker went: a timely exit, a forced kill, or an error of the
\* signalling.
C15_StartRemovesPrior ==
  [][\A c \in Clients :
       /\ (pc[c] = "loop" /\ loc[c].i > Len(loc[c].items)) =>
            Prior(c) \cap Keys(bot_procs) = {}
       /\ (pc[c] \in {"loop", "s_wait", "s_kill", "s_del"} /\ Returns(c)) =>
            Prior(c) \cap Keys(bot_procs') = {}]_vars

\* C16: in a stop of a registered id whose terminate() raised, a forced kill
\* of the worker has been attempted when the entry is removed.
C16_KillAfterTerminateError ==
  [][\A c \in Clients :
       (pc[c] = "d_fin" /\ Returns(c) /\ loc[c].exc = "terminate") =>
         \/ last'.stat.kill >= 1
         \/ procs[loc[c].proc].kill >= 1]_vars

\* C17: when the forced kill has been sent, the entry is removed only once
\* a wait has confirmed the exit of the worker.
C17_WaitAfterKill ==
  [][\A c \in Clients :
       (/\ pc[c] \in {"s_del", "d_fin"} /\ stat[c].sigkill >= 1
        /\ loc[c].proc \in Keys(bot_procs) \ Keys(bot_procs')) =>
         procs[loc[c].proc].st = "reaped"]_vars

\* C18: a worker is sent the forced kill only after the graceful-stop signal,
\* and each of the two signals at most once: a graceful-stop signal goes to
\* a worker that has had none, and a forced kill to a worker that has had
\* the graceful-stop signal and no forced kill yet.
C18_TwoPhase ==
  [][\A c \in Clients :
       /\ stat'[c].sigterm > stat[c].sigterm => procs[loc'[c].proc].term = 0
       /\ stat'[c].sigkill > stat[c].sigkill =>
            /\ procs[loc[c].proc].term >= 1
            /\ procs[loc[c].proc].kill = 0]_vars

\* C19: a stop or a start enters the grace-period wait at most once: a stop
\* waits for the worker of the id it was called with, and the registry a
\* start scans holds at most one entry of its room, so its loop waits for at
\* most one worker.
C19_OneWait ==
  /\ \A c \in Clients :
       /\ stat[c].term <= 1
       /\ pc[c] = "d_wait" =>
            loc[c].proc = req[c].bot_pid /\ stat[c].term = 1
       /\ pc[c] \in {"loop", "s_wait", "s_kill", "s_del"} =>
            Cardinality(Prior(c)) <= 1
       /\ pc[c] = "s_wait" =>
            Prior(c) = {loc[c].proc} /\ stat[c].term = 1
  /\ last.stat.term <= 1

\* a start waits for the worker of its room after it passed over the
\* worker of the other room
C19_Witness ==
  \E c \in Clients :
    /\ pc[c] = "s_wait" /\ loc[c].waited > 0
    /\ Len(loc[c].items) = 2 /\ loc[c].i = 2

\* C20: every signal goes to a worker whose entry is in the registry: a
\* terminate() or kill() that returns is called on the handle of an entry
\* that is in the registry before and after the call, and no handle of a
\* process outside the registry has its signal counts raised.
C20_SignalsWhileRegistered ==
  [][/\ \A c \in Clients :
          /\ stat'[c].term > stat[c].term =>
               loc'[c].proc \in Keys(bot_procs) \cap Keys(bot_procs')
          /\ stat'[c].kill > stat[c].kill =>
               loc[c].proc \in Keys(bot_procs) \cap Keys(bot_procs')
     /\ \A h \in Pids :
          (procs'[h].term > procs[h].term \/ procs'[h].kill > procs[h].kill) =>
            h \in Keys(bot_procs)]_vars

\* a stop took a worker out of the registry after both signals, and a
\* request that was sent meanwhile is waiting for the event loop
C20_Witness ==
  /\ last.req.op = "stop" /\ last.stat.term = 1 /\ last.stat.kill = 1
  /\ last.stat.del = 1
  /\ last.req.bot_pid \notin Keys(bot_procs)
  /\ \E c \in Clients : pc[c] = "queued"

\* the value the handler sees for a field of the request body
Field(v, dflt) == IF v = Omitted THEN dflt ELSE v

\* C21: a connect that succeeds has spawned one worker, with the room URL and
\* the token that were provisioned and the bot_type ("general" when left
\* out), topic and concept of the request; the registry holds the new
\* process id with that room URL, and the response carries the same id, room
\* URL, token and fields.
C21_ConnectPassesThrough ==
  [][\A c \in Clients :
       (/\ req[c].op = "connect"
        /\ pc[c] = "loop" /\ Returns(c) /\ last'.resp.code = 200) =>
         LET b == req[c].body
             bot_type == Field(b.bot_type, "general")
             topic == Field(b.topic, "")
             concept == Field(b.concept, "")
             new == last'.resp.body.bot_pid
         IN /\ loc[c].token = TokenOf(loc[c].room_url)
            /\ last'.stat.spawn = 1
            /\ last'.stat.cmd = [u |-> loc[c].room_url, t |-> loc[c].token,
                                 bot_type |-> bot_type, topic |-> topic,
                                 concept |-> concept]
            /\ new \notin Keys(bot_procs)
            /\ procs[new].st # "running" /\ procs'[new] = Popen
            /\ [pid |-> new, room |-> loc[c].room_url] \in Range(bot_procs')
            /\ Keys(bot_procs') = Keys(bot_procs) \cup {new}
            /\ last'.resp.body =
                 [room_url |-> loc[c].room_url, token |-> loc[c].token,
                  bot_pid |-> new, bot_type |-> bot_type, topic |-> topic,
                  concept |-> concept]]_vars

\* a connect for a quiz on a topic has succeeded in the room of tokB
C21_Witness ==
  /\ last.req.op = "connect" /\ last.resp.code = 200
  /\ last.req.body.bot_type = "quiz"
  /\ last.stat.cmd.topic = "Computer Networks"
  /\ last.resp.body.token = "tokB"

\* C22: when the spawn of a start fails, the retiring of the prior worker
\* stands: every entry that was registered for the room has had terminate()
\* called on it (which sent the graceful-stop signal if the worker had not
\* exited before), no longer runs and has been removed, and the registry
\* holds no entry for the room when the start has failed.
C22_NoRollback ==
  [][\A c \in Clients :
       (/\ pc[c] = "loop" /\ Returns(c)
        /\ last'.stat.spawn = 1 /\ last'.resp.code # 200) =>
         /\ Count(bot_procs', loc[c].room_url) = 0
         /\ Prior(c) \cap Keys(bot_procs') = {}
         /\ \A h \in Prior(c) :
              /\ procs[h].st # "running"
              /\ procs[h].term >= 1 \/ stat[c].sigterm < stat[c].term
         /\ last'.stat.term = Cardinality(Prior(c))
         /\ last'.stat.del = Cardinality(Prior(c))]_vars

\* a start has failed at the spawn after it retired the worker of its room
C22_Witness ==
  /\ last.resp = HTTPException(500, "Failed to start bot")
  /\ last.stat.term = 1 /\ last.stat.del = 1 /\ last.stat.ins = 0

\* the entries of registry d that are bound to a room other than r
Others(d, r) == SelectSeq(d, LAMBDA e : e.room # r)

\* this step is one of the handler of client c
StepOf(c) == pc'[c] # pc[c] \/ loc'[c] # loc[c] \/ stat'[c] # stat[c]

\* C23: no step of a start for a room, on its way to success or to failure,
\* changes the entries bound to other rooms (their ids, rooms and order) or
\* the processes of those entries, and the graceful-stop signal of a start
\* goes to a worker of its own room.
C23_StartFrame ==
  [][\A c \in Clients :
       (Handled(c).op \in Starters /\ StepOf(c)) =>
         /\ pc[c] \in {"queued", "token", "scan"} =>
              bot_procs' = bot_procs /\ procs' = procs
         /\ pc[c] \in {"loop", "s_wait", "s_kill", "s_del"} =>
              /\ Others(bot_procs', loc[c].room_url) = Others(bot_procs, loc[c].room_url)
              /\ \A k \in 1..Len(bot_procs) :
                   bot_procs[k].room # loc[c].room_url =>
                     procs'[bot_procs[k].pid] = procs[bot_procs[k].pid]
              /\ stat'[c].term > stat[c].term =>
                   [pid |-> loc'[c].proc, room |-> loc[c].room_url]
                     \in Range(bot_procs)]_vars

\* a start has retired the worker of its room and failed at the spawn,
\* beside the worker of the other room, which is still registered and runs
C23_Witness ==
  /\ last.req.op = "connect" /\ last.resp.code = 500
  /\ last.stat.del = 1 /\ last.stat.spawn = 1
  /\ Len(bot_procs) = 1 /\ procs[bot_procs[1].pid] = Popen

\* the entries of registry d other than that of process id p
Except(d, p) == SelectSeq(d, LAMBDA e : e.pid # p)

\* C24: a step of stop(id) changes the registry at most by taking out the
\* entry of id, and changes no process other than that of id: its signals go
\* to the process of id, and every other entry keeps its id, its room, its
\* place and its process as they were; a status call changes neither the
\* registry nor any process.
C24_StopStatusFrame ==
  [][\A c \in Clients :
       /\ (Handled(c).op = "stop" /\ StepOf(c)) =>
            LET id == Handled(c).bot_pid
            IN /\ Except(bot_procs', id) = Except(bot_procs, id)
               /\ Keys(bot_procs') \subseteq Keys(bot_procs)
               /\ \A h \in Pids \ {id} : procs'[h] = procs[h]
               /\ stat'[c].term > stat[c].term => loc'[c].proc = id
               /\ stat'[c].kill > stat[c].kill => loc[c].proc = id
       /\ (Handled(c).op = "status" /\ StepOf(c)) =>
            bot_procs' = bot_procs /\ procs' = procs]_vars

\* a stop has taken one worker out, after both signals, and the other
\* worker is still registered and runs
C24_Witness ==
  /\ last.req.op = "stop" /\ last.resp.code = 200 /\ last.stat.kill = 1
  /\ Len(bot_procs) = 1 /\ procs[bot_procs[1].pid] = Popen

\* C25: of two stops of one registered id that were both sent before either
\* had finished, the one that runs first answers with the success message
\* after exactly one graceful-stop signal to the worker, and the other
\* answers 404, signals nothing and does not fail on the missing entry.
C25_ConcurrentStops ==
  [][\A c, d \in Clients :
       (/\ c # d
        /\ Begins(c) /\ Handled(c).op = "stop"
        /\ last.client = d /\ last.req.op = "stop"
        /\ last.req.bot_pid = Handled(c).bot_pid
        /\ last.resp.code # 404) =>
         /\ last.resp = JSONResponse([message |-> last.req.bot_pid])
         /\ last.stat.term = 1
         /\ Returns(c)
         /\ last'.resp = HTTPException(404, "Bot not found")
         /\ last'.stat = NoStat
         /\ procs' = procs]_vars

====
